---- MODULE Spec2Model ----
(***************************************************************************)
(* Model of script/gen_pinctrl.py: the pin-control header generator for    *)
(* Silicon Labs Series 2 devices.  The aggregated model `peripherals` is   *)
(* built from the SVD register documents (parse_svd) and the Pin Tool      *)
(* routing documents (parse_pin_tool) of every variant of a family, then   *)
(* rendered by write_header.                                               *)
(*                                                                         *)
(* A Python dict is modelled as the sequence of its <<key, value>> pairs   *)
(* in insertion order; names are strings, sliced as the code slices them.  *)
(***************************************************************************)
EXTENDS Integers, Sequences, FiniteSets, TLC

(***************************************************************************)
(* Bounds of the model.                                                    *)
(***************************************************************************)
\* variants of the family (len(families[args.family]))
MaxVariants == 2
\* inputs read during the run: *.svd files, registers, PORTIO.portio files
MaxReads == 6

(***************************************************************************)
(* Python dict: insertion-ordered sequence of <<key, value>> pairs.        *)
(***************************************************************************)
EmptyDict == << >>

KeySet(d) == { d[i][1] : i \in 1..Len(d) }

Has(d, k) == k \in KeySet(d)

Idx(d, k) == CHOOSE i \in 1..Len(d) : d[i][1] = k

Get(d, k) == d[Idx(d, k)][2]

Put(d, k, v) ==
    IF Has(d, k) THEN [d EXCEPT ![Idx(d, k)] = <<k, v>>]
    ELSE Append(d, <<k, v>>)

GetOr(d, k, default) == IF Has(d, k) THEN Get(d, k) ELSE default

(***************************************************************************)
(* Python str helpers.                                                     *)
(***************************************************************************)
EndsWith(s, suffix) ==
    /\ Len(s) >= Len(suffix)
    /\ SubSeq(s, Len(s) - Len(suffix) + 1, Len(s)) = suffix

\* s[:-n] for n > 0
DropLast(s, n) == SubSeq(s, 1, Len(s) - n)

Contains(s, c) == \E i \in 1..Len(s) : SubSeq(s, i, i) = c

\* s.split(c, 1): the parts before and after the first c
FirstIndex(s, c) == CHOOSE i \in 1..Len(s) :
    /\ SubSeq(s, i, i) = c
    /\ \A j \in 1..(i - 1) : SubSeq(s, j, j) # c

Split1(s, c) ==
    IF Contains(s, c)
    THEN << SubSeq(s, 1, FirstIndex(s, c) - 1),
            SubSeq(s, FirstIndex(s, c) + 1, Len(s)) >>
    ELSE << s >>

\* chr(65 + port)
Chr65(port) == SubSeq("ABCDEFGHIJKLMNOPQRSTUVWXYZ", port + 1, port + 1)

Digit(n) == SubSeq("0123456789", n + 1, n + 1)

RECURSIVE Str(_)
Str(n) == IF n < 10 THEN Digit(n) ELSE Str(n \div 10) \o Digit(n % 10)

(***************************************************************************)
(* Rename tables.                                                          *)
(***************************************************************************)
peripheral_rename_map ==
    ("FRC" :> "PTI") @@ ("LETIMER" :> "LETIMER0") @@ ("SYXO0" :> "HFXO0")

signal_rename_map ==
    ("CCC0" :> "CDTI0") @@ ("CCC1" :> "CDTI1") @@
    ("CCC2" :> "CDTI2") @@ ("CCC3" :> "CDTI3")

pt_signal_rename_map ==
    ("ACMPOUT" :> "DIGOUT") @@
    ("COLOUT0" :> "COL_OUT_0") @@ ("COLOUT1" :> "COL_OUT_1") @@
    ("COLOUT2" :> "COL_OUT_2") @@ ("COLOUT3" :> "COL_OUT_3") @@
    ("COLOUT4" :> "COL_OUT_4") @@ ("COLOUT5" :> "COL_OUT_5") @@
    ("COLOUT6" :> "COL_OUT_6") @@ ("COLOUT7" :> "COL_OUT_7") @@
    ("ROWSENSE0" :> "ROW_SENSE_0") @@ ("ROWSENSE1" :> "ROW_SENSE_1") @@
    ("ROWSENSE2" :> "ROW_SENSE_2") @@ ("ROWSENSE3" :> "ROW_SENSE_3") @@
    ("ROWSENSE4" :> "ROW_SENSE_4") @@ ("ROWSENSE5" :> "ROW_SENSE_5") @@
    ("ANTROLLOVER" :> "ANT_ROLL_OVER") @@
    ("ANTRR0" :> "ANT_RR0") @@ ("ANTRR1" :> "ANT_RR1") @@
    ("ANTRR2" :> "ANT_RR2") @@ ("ANTRR3" :> "ANT_RR3") @@
    ("ANTRR4" :> "ANT_RR4") @@ ("ANTRR5" :> "ANT_RR5") @@
    ("ANTSWEN" :> "ANT_SW_EN") @@ ("ANTSWUS" :> "ANT_SW_US") @@
    ("ANTTRIG" :> "ANT_TRIG") @@ ("ANTTRIGSTOP" :> "ANT_TRIG_STOP") @@
    ("BUFOUTREQINASYNC" :> "BUFOUT_REQ_IN_ASYNC") @@
    ("USBVBUSSENSE" :> "USB_VBUS_SENSE")

\* `if name in map: name = map[name]`
Rename(map, name) == IF name \in DOMAIN map THEN map[name] ELSE name

(***************************************************************************)
(* parse_svd: one register of the GPIO_NS peripheral.                      *)
(***************************************************************************)
\* VisitField without the `if "en" not in ...` guard of line 169: the last
\* field read wins
VisitFieldOverwrite(m, peripheral, field) ==
    IF EndsWith(field.name, "PEN")
    THEN LET signal == Rename(signal_rename_map, DropLast(field.name, 3))
             sigs0  == Get(m, peripheral)
             sigs1  == IF ~Has(sigs0, signal)
                       THEN Put(sigs0, signal, EmptyDict) ELSE sigs0
             data   == Get(sigs1, signal)
         IN  Put(m, peripheral,
                 Put(sigs1, signal, Put(data, "en", field.bit_offset)))
    ELSE m

\* lines 163-170: one field of a _ROUTEEN register
VisitField(m, peripheral, field) ==
    IF EndsWith(field.name, "PEN")
    THEN LET signal == Rename(signal_rename_map, DropLast(field.name, 3))
             sigs0  == Get(m, peripheral)
             sigs1  == IF ~Has(sigs0, signal)
                       THEN Put(sigs0, signal, EmptyDict) ELSE sigs0
             data   == Get(sigs1, signal)
             sigs2  == IF ~Has(data, "en")
                       THEN Put(sigs1, signal, Put(data, "en", field.bit_offset))
                       ELSE sigs1
         IN  Put(m, peripheral, sigs2)
    ELSE m

RECURSIVE VisitFields(_, _, _)
VisitFields(m, peripheral, fields) ==
    IF fields = << >> THEN m
    ELSE VisitFields(VisitField(m, peripheral, Head(fields)), peripheral, Tail(fields))

\* VisitRouteEn without the `if peripheral not in peripherals` guard of line
\* 159: every _ROUTEEN register sets _base
VisitRouteEnRebase(m, reg) ==
    LET peripheral == Rename(peripheral_rename_map, DropLast(reg.name, 8))
        m1 == IF ~Has(m, peripheral)
              THEN Put(m, peripheral, << <<"_base", reg.address_offset \div 4>> >>)
              ELSE Put(m, peripheral,
                       Put(Get(m, peripheral), "_base", reg.address_offset \div 4))
    IN  VisitFields(m1, peripheral, reg.fields)

\* lines 155-170: a register whose name ends with _ROUTEEN
VisitRouteEn(m, reg) ==
    LET peripheral == Rename(peripheral_rename_map, DropLast(reg.name, 8))
        m1 == IF ~Has(m, peripheral)
              THEN Put(m, peripheral, << <<"_base", reg.address_offset \div 4>> >>)
              ELSE m
    IN  VisitFields(m1, peripheral, reg.fields)

\* VisitRoute without the `if "route" not in ...` guard of line 184: the last
\* ROUTE register read wins
VisitRouteOverwrite(m, reg) ==
    LET parts      == Split1(reg.name, "_")
        peripheral == Rename(peripheral_rename_map, parts[1])
        signal     == Rename(signal_rename_map, DropLast(parts[2], 5))
        m1    == IF ~Has(m, peripheral)
                 THEN Put(m, peripheral, << <<"_base", reg.address_offset \div 4>> >>)
                 ELSE m
        sigs0 == Get(m1, peripheral)
        sigs1 == IF ~Has(sigs0, signal)
                 THEN Put(sigs0, signal, EmptyDict) ELSE sigs0
        data  == Get(sigs1, signal)
        sigs2 == Put(sigs1, signal,
                     Put(data, "route",
                         (reg.address_offset \div 4) - Get(sigs1, "_base")))
    IN  Put(m1, peripheral, sigs2)

\* VisitRoute without the renames of lines 174-178: the names of the register
\* are stored as they are
VisitRouteNoRename(m, reg) ==
    LET parts      == Split1(reg.name, "_")
        peripheral == parts[1]
        signal     == DropLast(parts[2], 5)
        m1    == IF ~Has(m, peripheral)
                 THEN Put(m, peripheral, << <<"_base", reg.address_offset \div 4>> >>)
                 ELSE m
        sigs0 == Get(m1, peripheral)
        sigs1 == IF ~Has(sigs0, signal)
                 THEN Put(sigs0, signal, EmptyDict) ELSE sigs0
        data  == Get(sigs1, signal)
        sigs2 == IF ~Has(data, "route")
                 THEN Put(sigs1, signal,
                          Put(data, "route",
                              (reg.address_offset \div 4) - Get(sigs1, "_base")))
                 ELSE sigs1
    IN  Put(m1, peripheral, sigs2)

\* VisitRoute storing the word offset of the register itself as `route`,
\* without the subtraction of _base of line 185
VisitRouteAbsolute(m, reg) ==
    LET parts      == Split1(reg.name, "_")
        peripheral == Rename(peripheral_rename_map, parts[1])
        signal     == Rename(signal_rename_map, DropLast(parts[2], 5))
        m1    == IF ~Has(m, peripheral)
                 THEN Put(m, peripheral, << <<"_base", reg.address_offset \div 4>> >>)
                 ELSE m
        sigs0 == Get(m1, peripheral)
        sigs1 == IF ~Has(sigs0, signal)
                 THEN Put(sigs0, signal, EmptyDict) ELSE sigs0
        data  == Get(sigs1, signal)
        sigs2 == IF ~Has(data, "route")
                 THEN Put(sigs1, signal, Put(data, "route", reg.address_offset \div 4))
                 ELSE sigs1
    IN  Put(m1, peripheral, sigs2)

\* lines 172-185: a register whose name ends with ROUTE
VisitRoute(m, reg) ==
    LET parts      == Split1(reg.name, "_")
        peripheral == Rename(peripheral_rename_map, parts[1])
        signal     == Rename(signal_rename_map, DropLast(parts[2], 5))
        m1    == IF ~Has(m, peripheral)
                 THEN Put(m, peripheral, << <<"_base", reg.address_offset \div 4>> >>)
                 ELSE m
        sigs0 == Get(m1, peripheral)
        sigs1 == IF ~Has(sigs0, signal)
                 THEN Put(sigs0, signal, EmptyDict) ELSE sigs0
        data  == Get(sigs1, signal)
        sigs2 == IF ~Has(data, "route")
                 THEN Put(sigs1, signal,
                          Put(data, "route",
                              (reg.address_offset \div 4) - Get(sigs1, "_base")))
                 ELSE sigs1
    IN  Put(m1, peripheral, sigs2)

\* line 173: the tuple unpacking raises ValueError when the name has no "_"
RegRaises(reg) ==
    /\ EndsWith(reg.name, "ROUTE")
    /\ Len(Split1(reg.name, "_")) # 2

\* lines 154-185: the body of `for reg in gpio.registers`
VisitRegister(m, reg) ==
    LET m1 == IF EndsWith(reg.name, "_ROUTEEN") THEN VisitRouteEn(m, reg) ELSE m
    IN  IF EndsWith(reg.name, "ROUTE") THEN VisitRoute(m1, reg) ELSE m1

RECURSIVE VisitRegisters(_, _)
VisitRegisters(m, regs) ==
    IF regs = << >> THEN m
    ELSE VisitRegisters(VisitRegister(m, Head(regs)), Tail(regs))

(***************************************************************************)
(* parse_pin_tool: one PORTIO.portio document.  A document is the sequence *)
(* of its portIo/pinRoutes/module/selector nodes in document order, each   *)
(* [module, selector, routes], a route being [name, locations] and a       *)
(* location <<portBankIndex, pinIndex>>.                                   *)
(***************************************************************************)
\* lines 199-202
PtSignal(signal) == Rename(pt_signal_rename_map, signal)

\* PtPeripheral building the module name of PRS0 from pt_signal instead of
\* signal (line 205)
PtPeripheralRenamed(peripheral, signal) ==
    IF peripheral = "PRS0" THEN "PRS." \o PtSignal(signal) ELSE peripheral

\* lines 204-209
PtPeripheral(peripheral, signal) ==
    IF peripheral = "PRS0" THEN "PRS." \o signal ELSE peripheral

PtSignalPrefix(peripheral) ==
    IF peripheral = "PRS0" THEN "PRS" ELSE peripheral

\* line 214: the selector nodes the xpath query returns, in document order
Selectors(doc, peripheral, signal) ==
    SelectSeq(doc, LAMBDA node :
        /\ node.module = PtPeripheral(peripheral, signal)
        /\ node.selector = PtSignalPrefix(peripheral) \o "_" \o PtSignal(signal))

RECURSIVE Flatten(_)
Flatten(seqs) ==
    IF seqs = << >> THEN << >> ELSE Head(seqs) \o Flatten(Tail(seqs))

\* line 215: the location nodes of the routes named pt_signal under `node`
Locations(node, signal) ==
    LET routes == SelectSeq(node.routes, LAMBDA r : r.name = PtSignal(signal))
    IN  Flatten([i \in 1..Len(routes) |-> routes[i].locations])

\* AddLocation without the `if port not in data["pinout"]` guard of line 218:
\* every location starts the set of its port afresh
AddLocationFresh(pinout, loc) ==
    LET port == loc[1]
        pin  == loc[2]
    IN  Put(pinout, port, {pin})

\* lines 216-220
AddLocation(pinout, loc) ==
    LET port == loc[1]
        pin  == loc[2]
        p1   == IF ~Has(pinout, port) THEN Put(pinout, port, {}) ELSE pinout
    IN  Put(p1, port, Get(p1, port) \cup {pin})

RECURSIVE AddLocations(_, _)
AddLocations(pinout, locs) ==
    IF locs = << >> THEN pinout
    ELSE AddLocations(AddLocation(pinout, Head(locs)), Tail(locs))

\* PinToolSignal storing a new dict for the signal instead of adding the key
\* "pinout" to `data` (lines 211-212): en and route are lost
PinToolSignalReplace(doc, peripheral, signal, data) ==
    LET data1 == << <<"pinout", GetOr(data, "pinout", EmptyDict)>> >>
        nodes == Selectors(doc, peripheral, signal)
    IN  IF nodes # << >>
        THEN Put(data1, "pinout",
                 AddLocations(Get(data1, "pinout"), Locations(Head(nodes), signal)))
        ELSE data1

\* PinToolSignal without the `if "pinout" not in data` guard of line 211: every
\* document starts the pinout afresh
PinToolSignalReset(doc, peripheral, signal, data) ==
    LET data1 == Put(data, "pinout", EmptyDict)
        nodes == Selectors(doc, peripheral, signal)
    IN  IF nodes # << >>
        THEN Put(data1, "pinout",
                 AddLocations(Get(data1, "pinout"), Locations(Head(nodes), signal)))
        ELSE data1

\* lines 199-224: the body of the loop for one signal; the first node only (break)
PinToolSignal(doc, peripheral, signal, data) ==
    LET data1 == IF ~Has(data, "pinout") THEN Put(data, "pinout", EmptyDict) ELSE data
        nodes == Selectors(doc, peripheral, signal)
    IN  IF nodes # << >>
        THEN Put(data1, "pinout",
                 AddLocations(Get(data1, "pinout"), Locations(Head(nodes), signal)))
        ELSE data1

RECURSIVE PinToolSignals(_, _, _, _)
PinToolSignals(doc, peripheral, signals, i) ==
    IF i > Len(signals) THEN signals
    ELSE LET signal == signals[i][1]
         IN  IF signal = "_base"
             THEN PinToolSignals(doc, peripheral, signals, i + 1)
             ELSE PinToolSignals(doc, peripheral,
                    [signals EXCEPT ![i] =
                        <<signal, PinToolSignal(doc, peripheral, signal, signals[i][2])>>],
                    i + 1)

\* lines 194-224 for one document
PinToolDoc(m, doc) ==
    [i \in 1..Len(m) |-> <<m[i][1], PinToolSignals(doc, m[i][1], m[i][2], 1)>>]

\* the <<peripheral, signal>> pairs in iteration order (lines 194-197)
SignalList(m) ==
    Flatten([i \in 1..Len(m) |->
        LET sigs == SelectSeq(m[i][2], LAMBDA kv : kv[1] # "_base")
        IN  [j \in 1..Len(sigs) |-> <<m[i][1], sigs[j][1]>>]])

\* PinToolWarnings without the `break` of line 222: the else clause of the
\* `for node` loop runs for every signal
PinToolWarningsNoBreak(m, doc) == SignalList(m)

\* line 224: the warnings one document prints
PinToolWarnings(m, doc) ==
    SelectSeq(SignalList(m), LAMBDA ps : Selectors(doc, ps[1], ps[2]) = << >>)

(***************************************************************************)
(* write_header.  A line of the header is a record: the fixed text lines,  *)
(* blank lines, the parameterized SILABS_DBUS_<p>_<s>(port, pin) macros    *)
(* and the per-location macros.                                            *)
(***************************************************************************)
RECURSIVE Sorted(_)
Sorted(S) ==
    IF S = {} THEN << >>
    ELSE LET min == CHOOSE x \in S : \A y \in S : x <= y
         IN  <<min>> \o Sorted(S \ {min})

\* lines 115-122
Preamble ==
    << [kind |-> "text", text |-> "/*"],
       [kind |-> "text", text |-> " * Pin Control for Silicon Labs {family} devices"],
       [kind |-> "text", text |-> " * Copyright (c) 2024 Silicon Laboratories Inc."],
       [kind |-> "text", text |-> " *"],
       [kind |-> "text", text |-> " * SPDX-License-Identifier: Apache-2.0"],
       [kind |-> "text", text |-> " */"],
       [kind |-> "blank"],
       [kind |-> "text", text |-> "#include <dt-bindings/pinctrl/silabs-pinctrl-dbus.h>"] >>

\* DbusLine with the enable bit and the route offset in each other's place
DbusLineSwapped(peripheral, signal, signals, data) ==
    [kind   |-> "dbus",
     name   |-> "SILABS_DBUS_" \o peripheral \o "_" \o signal,
     base   |-> Get(signals, "_base"),
     flag   |-> IF Has(data, "en") THEN 1 ELSE 0,
     en     |-> Get(data, "route"),
     route  |-> GetOr(data, "en", 0)]

\* line 130
DbusLine(peripheral, signal, signals, data) ==
    [kind   |-> "dbus",
     name   |-> "SILABS_DBUS_" \o peripheral \o "_" \o signal,
     base   |-> Get(signals, "_base"),
     flag   |-> IF Has(data, "en") THEN 1 ELSE 0,
     en     |-> GetOr(data, "en", 0),
     route  |-> Get(data, "route")]

\* line 142
PinLine(peripheral, signal, port, pin) ==
    [kind  |-> "pin",
     name  |-> peripheral \o "_" \o signal \o "_P" \o Chr65(port) \o Str(pin),
     macro |-> "SILABS_DBUS_" \o peripheral \o "_" \o signal,
     port  |-> port,
     pin   |-> pin]

\* lines 124-132: the first loop
DbusLines(m) ==
    Flatten([i \in 1..Len(m) |->
        LET sigs == SelectSeq(m[i][2], LAMBDA kv : kv[1] # "_base" /\ Has(kv[2], "route"))
        IN  << [kind |-> "blank"] >> \o
            [j \in 1..Len(sigs) |-> DbusLine(m[i][1], sigs[j][1], m[i][2], sigs[j][2])]])

\* line 132
HeaderWarnings(m) ==
    SelectSeq(SignalList(m), LAMBDA ps : ~Has(Get(Get(m, ps[1]), ps[2]), "route"))

\* lines 140-142 for one signal
SignalPinLines(peripheral, signal, pinout) ==
    Flatten([k \in 1..Len(pinout) |->
        LET pins == Sorted(pinout[k][2])
        IN  [n \in 1..Len(pins) |-> PinLine(peripheral, signal, pinout[k][1], pins[n])]])

\* lines 136-142: the signals of one peripheral from index j on; data['pinout']
\* (line 140) raises KeyError when parse_pin_tool never visited the signal
RECURSIVE SecondLoopSignals(_, _, _, _)
SecondLoopSignals(peripheral, signals, j, acc) ==
    IF j > Len(signals) THEN [lines |-> acc, raised |-> FALSE]
    ELSE IF signals[j][1] = "_base"
    THEN SecondLoopSignals(peripheral, signals, j + 1, acc)
    ELSE IF ~Has(signals[j][2], "pinout") THEN [lines |-> acc, raised |-> TRUE]
    ELSE SecondLoopSignals(peripheral, signals, j + 1,
            acc \o SignalPinLines(peripheral, signals[j][1],
                                  Get(signals[j][2], "pinout")))

\* lines 134-142: the second loop, from peripheral i on
RECURSIVE SecondLoop(_, _, _)
SecondLoop(m, i, acc) ==
    IF i > Len(m) THEN [lines |-> acc, raised |-> FALSE]
    ELSE LET r == SecondLoopSignals(m[i][1], m[i][2], 1,
                                    Append(acc, [kind |-> "blank"]))
         IN  IF r.raised THEN r ELSE SecondLoop(m, i + 1, r.lines)

\* lines 114-144: the list `lines` when write_header returns or raises
HeaderLines(m) ==
    LET r == SecondLoop(m, 1, Preamble \o DbusLines(m))
    IN  IF r.raised THEN r.lines ELSE Append(r.lines, [kind |-> "blank"])

HeaderRaises(m) == SecondLoop(m, 1, Preamble \o DbusLines(m)).raised

(***************************************************************************)
(* Input documents.  Registers of GPIO_NS as the SVD parser reports them   *)
(* (name, address_offset in bytes, fields with name and bit_offset), and   *)
(* PORTIO.portio documents.                                                *)
(***************************************************************************)
Field(name, bit_offset) == [name |-> name, bit_offset |-> bit_offset]

Reg(name, address_offset, fields) ==
    [name |-> name, address_offset |-> address_offset, fields |-> fields]

Registers ==
    { Reg("TIMER0_ROUTEEN", 32, << Field("CC0PEN", 0), Field("CC1PEN", 1) >>),
      Reg("TIMER0_CC0ROUTE", 36, << >>),
      Reg("TIMER0_CC0ROUTE", 52, << >>),
      Reg("TIMER0_ROUTEEN", 48, << Field("CC0PEN", 2) >>),
      Reg("FRC_ROUTEEN", 64, << Field("CCC0PEN", 0), Field("DOUT", 1) >>),
      Reg("PRS0_ASYNCH0ROUTE", 80, << >>),
      Reg("ACMP0_ACMPOUTROUTE", 18, << >>),
      Reg("PORTA_CTRL", 0, << >>),
      Reg("TRACEROUTE", 96, << >>) }

Route(name, locations) == [name |-> name, locations |-> locations]

Selector(module, selector, routes) ==
    [module |-> module, selector |-> selector, routes |-> routes]

Portios ==
    { << Selector("TIMER0", "TIMER0_CC0", << Route("CC0", << <<0, 5>> >>) >>) >>,
      << Selector("TIMER0", "TIMER0_CC0", << Route("CC0", << <<1, 2>>, <<0, 6>> >>) >>),
         Selector("TIMER0", "TIMER0_CC1",
                  << Route("CC0", << <<0, 9>> >>), Route("CC1", << <<0, 4>> >>) >>),
         Selector("TIMER0", "TIMER0_CC1", << Route("CC1", << <<0, 8>> >>) >>) >>,
      << >>,
      << Selector("PRS.ASYNCH0", "PRS_ASYNCH0",
                  << Route("ASYNCH0", << <<2, 1>>, <<0, 10>>, <<0, 3>> >>) >>),
         Selector("PTI", "PTI_CDTI0", << Route("CDTI0", << <<3, 0>> >>) >>),
         Selector("ACMP0", "ACMP0_DIGOUT", << Route("DIGOUT", << <<0, 7>> >>) >>) >> }

(***************************************************************************)
(* The program: __main__ (lines 236-245) driving parse_svd, parse_pin_tool *)
(* and write_header.                                                       *)
(***************************************************************************)
VARIABLES
    peripherals,  \* the aggregated model (line 236)
    pc,           \* "parse_svd", "parse_pin_tool", "write_header", "done", "failed"
    error,        \* the exception that ended the run, "" when none
    nVariants,    \* len(families[args.family])
    variant,      \* index of the variant being processed (line 238)
    inDoc,        \* parse_svd is inside `for reg in gpio.registers`
    svdSeen,      \* this variant had a *.svd file
    portioSeen,   \* this variant had a PORTIO.portio file
    nReads,       \* *.svd files, registers and PORTIO.portio files read so far
    warns,        \* the WARN lines printed by the last step
    lines,        \* the list `lines` of write_header, << >> before it runs
    header,       \* the lines written to <family>-pinctrl.h, << >> before
    firstOffset,  \* history: peripheral -> word offset of its first register
    portios,      \* history: the set of PORTIO.portio documents read so far
    matched,      \* history: <<peripheral, signal>> some PORTIO.portio matched
    absent,       \* history: a finished variant had no *.svd or no PORTIO.portio
    routeEnSeen,  \* history: the peripherals a _ROUTEEN register was read for
    firstRoute,   \* history: per signal, the first ROUTE register read for it
    routesRead,   \* history: <<peripheral, signal, word offset>> of the ROUTE registers read
    input,        \* history: per variant, the documents read (SpecTrace only)
    last          \* history: << x >>, x the register or document the last step read

vars == << peripherals, pc, error, nVariants, variant, inDoc, svdSeen,
           portioSeen, nReads, warns, lines, header, firstOffset, portios, matched,
           absent, routeEnSeen, firstRoute, routesRead, input, last >>

\* the canonical peripheral a register belongs to, as parse_svd derives it
RegPeripheral(reg) ==
    IF EndsWith(reg.name, "_ROUTEEN")
    THEN Rename(peripheral_rename_map, DropLast(reg.name, 8))
    ELSE Rename(peripheral_rename_map, Split1(reg.name, "_")[1])

\* the canonical signal a ROUTE register belongs to (lines 173-178)
RegSignal(reg) ==
    Rename(signal_rename_map, DropLast(Split1(reg.name, "_")[2], 5))

IsRouting(reg) == EndsWith(reg.name, "_ROUTEEN") \/ EndsWith(reg.name, "ROUTE")

\* routeEnSeen once parse_svd has visited `reg`
RouteEnSeenAfter(seen, reg) ==
    IF EndsWith(reg.name, "_ROUTEEN") THEN seen \cup {RegPeripheral(reg)} ELSE seen

\* firstRoute once parse_svd has visited `reg` on the model m, `seen` being
\* routeEnSeen before the visit
FirstRouteAfter(first, seen, m, reg) ==
    IF /\ EndsWith(reg.name, "ROUTE")
       /\ \A e \in first :
            <<e.peripheral, e.signal>> # <<RegPeripheral(reg), RegSignal(reg)>>
    THEN first \cup
           {[peripheral |-> RegPeripheral(reg),
             signal     |-> RegSignal(reg),
             offset     |-> reg.address_offset \div 4,
             routeEn    |-> RegPeripheral(reg) \in seen,
             known      |-> Has(m, RegPeripheral(reg))]}
    ELSE first

\* routesRead once parse_svd has visited `reg`
RoutesReadAfter(read, reg) ==
    IF EndsWith(reg.name, "ROUTE")
    THEN read \cup {<<RegPeripheral(reg), RegSignal(reg), reg.address_offset \div 4>>}
    ELSE read

\* firstOffset once parse_svd has visited `reg`
FirstOffsetAfter(first, reg) ==
    IF IsRouting(reg) /\ RegPeripheral(reg) \notin DOMAIN first
    THEN first @@ (RegPeripheral(reg) :> reg.address_offset \div 4)
    ELSE first

\* a variant of which nothing was read yet: no *.svd file, no PORTIO.portio
NoDocuments == [svd |-> << >>, portio |-> << >>]

\* line 236 and the first iteration of line 238
Init ==
    /\ peripherals = EmptyDict
    /\ pc = "parse_svd"
    /\ error = ""
    /\ nVariants \in 1..MaxVariants
    /\ variant = 1
    /\ inDoc = FALSE
    /\ svdSeen = FALSE
    /\ portioSeen = FALSE
    /\ nReads = 0
    /\ warns = << >>
    /\ lines = << >>
    /\ header = << >>
    /\ firstOffset = << >>
    /\ portios = {}
    /\ matched = {}
    /\ absent = FALSE
    /\ routeEnSeen = {}
    /\ firstRoute = {}
    /\ routesRead = {}
    /\ input = << NoDocuments >>
    /\ last = << >>

\* lines 150-153: the next *.svd file; next(filter(...)) raises StopIteration
\* when the device has no GPIO_NS peripheral
SvdOpen(gpio) ==
    /\ pc = "parse_svd" /\ ~inDoc /\ nReads < MaxReads
    /\ nReads' = nReads + 1
    /\ svdSeen' = TRUE
    /\ warns' = << >>
    /\ IF gpio
       THEN /\ inDoc' = TRUE
            /\ UNCHANGED << pc, error >>
       ELSE /\ pc' = "failed"
            /\ error' = "StopIteration"
            /\ UNCHANGED inDoc
    /\ UNCHANGED << peripherals, nVariants, variant, portioSeen, lines, header,
                    firstOffset, portios, matched, absent, routeEnSeen, firstRoute, routesRead >>

\* lines 154-185: one iteration of `for reg in gpio.registers`
SvdReg(reg) ==
    /\ pc = "parse_svd" /\ inDoc /\ nReads < MaxReads
    /\ nReads' = nReads + 1
    /\ warns' = << >>
    /\ IF RegRaises(reg)
       THEN /\ pc' = "failed"
            /\ error' = "ValueError"
            /\ UNCHANGED << peripherals, firstOffset, routeEnSeen, firstRoute,
                            routesRead >>
       ELSE /\ peripherals' = VisitRegister(peripherals, reg)
            /\ routeEnSeen' = RouteEnSeenAfter(routeEnSeen, reg)
            /\ firstRoute' = FirstRouteAfter(firstRoute, routeEnSeen, peripherals, reg)
            /\ routesRead' = RoutesReadAfter(routesRead, reg)
            /\ firstOffset' = FirstOffsetAfter(firstOffset, reg)
            /\ UNCHANGED << pc, error >>
    /\ UNCHANGED << nVariants, variant, inDoc, svdSeen, portioSeen, lines, header,
                    portios, matched, absent >>

\* line 154: gpio.registers is exhausted
SvdClose ==
    /\ pc = "parse_svd" /\ inDoc
    /\ inDoc' = FALSE
    /\ warns' = << >>
    /\ UNCHANGED << peripherals, pc, error, nVariants, variant, svdSeen,
                    portioSeen, nReads, lines, header, firstOffset, portios, matched,
                    absent, routeEnSeen, firstRoute, routesRead >>

\* line 150: the glob is exhausted, parse_svd returns (line 241 -> 243)
SvdEnd ==
    /\ pc = "parse_svd" /\ ~inDoc
    /\ pc' = "parse_pin_tool"
    /\ warns' = << >>
    /\ UNCHANGED << peripherals, error, nVariants, variant, inDoc, svdSeen,
                    portioSeen, nReads, lines, header, firstOffset, portios, matched,
                    absent, routeEnSeen, firstRoute, routesRead >>

\* the signals of the model for which `doc` has a selector (line 214)
Matches(m, doc) ==
    { SignalList(m)[i] : i \in
        { j \in 1..Len(SignalList(m)) :
            Selectors(doc, SignalList(m)[j][1], SignalList(m)[j][2]) # << >> } }

\* lines 189-224: one PORTIO.portio file
PinTool(doc) ==
    /\ pc = "parse_pin_tool" /\ nReads < MaxReads
    /\ nReads' = nReads + 1
    /\ portioSeen' = TRUE
    /\ peripherals' = PinToolDoc(peripherals, doc)
    /\ warns' = PinToolWarnings(peripherals, doc)
    /\ portios' = portios \cup {doc}
    /\ matched' = matched \cup Matches(peripherals, doc)
    /\ UNCHANGED << pc, error, nVariants, variant, inDoc, svdSeen, lines, header,
                    firstOffset, absent, routeEnSeen, firstRoute, routesRead >>

\* PinToolEnd with write_header called inside the loop over the variants
\* (line 245 indented): the header is written after the first variant
PinToolEndInLoop ==
    /\ pc = "parse_pin_tool"
    /\ absent' = (absent \/ ~svdSeen \/ ~portioSeen)
    /\ warns' = << >>
    /\ pc' = "write_header"
    /\ UNCHANGED << variant, svdSeen, portioSeen >>
    /\ UNCHANGED << peripherals, error, nVariants, inDoc, nReads, lines, header,
                    firstOffset, portios, matched, routeEnSeen, firstRoute, routesRead >>

\* line 189: the glob is exhausted; lines 238, 245: next variant or write_header
PinToolEnd ==
    /\ pc = "parse_pin_tool"
    /\ absent' = (absent \/ ~svdSeen \/ ~portioSeen)
    /\ warns' = << >>
    /\ IF variant < nVariants
       THEN /\ variant' = variant + 1
            /\ pc' = "parse_svd"
            /\ svdSeen' = FALSE
            /\ portioSeen' = FALSE
       ELSE /\ pc' = "write_header"
            /\ UNCHANGED << variant, svdSeen, portioSeen >>
    /\ UNCHANGED << peripherals, error, nVariants, inDoc, nReads, lines, header,
                    firstOffset, portios, matched, routeEnSeen, firstRoute, routesRead >>

\* lines 113-146
WriteHeader ==
    /\ pc = "write_header"
    /\ warns' = HeaderWarnings(peripherals)
    /\ lines' = HeaderLines(peripherals)
    /\ IF HeaderRaises(peripherals)
       THEN /\ pc' = "failed"
            /\ error' = "KeyError"
            /\ UNCHANGED header
       ELSE /\ pc' = "done"
            /\ header' = HeaderLines(peripherals)
            /\ UNCHANGED error
    /\ UNCHANGED << peripherals, nVariants, variant, inDoc, svdSeen, portioSeen,
                    nReads, firstOffset, portios, matched, absent, routeEnSeen,
                    firstRoute, routesRead >>

\* the step read nothing, or what it read is not recorded
Forget == last' = << >>

\* the step read x
Remember(x) == last' = << x >>

Next ==
    \/ \E gpio \in BOOLEAN : SvdOpen(gpio) /\ Forget /\ UNCHANGED input
    \/ \E reg \in Registers : SvdReg(reg) /\ Forget /\ UNCHANGED input
    \/ SvdClose /\ Forget /\ UNCHANGED input
    \/ SvdEnd /\ Forget /\ UNCHANGED input
    \/ \E doc \in Portios : PinTool(doc) /\ Remember(doc) /\ UNCHANGED input
    \/ PinToolEnd /\ Forget /\ UNCHANGED input
    \/ WriteHeader /\ Forget /\ UNCHANGED input

Spec == Init /\ [][Next]_vars

(***************************************************************************)
(* SpecTrace: the same program, with the documents it reads recorded in    *)
(* `input`, so that a run can be compared with the run on the same         *)
(* documents in another order.                                             *)
(***************************************************************************)
RecordSvd(gpio) ==
    input' = IF gpio THEN [input EXCEPT ![variant].svd = Append(@, << >>)]
             ELSE input

RecordReg(reg) ==
    input' = IF RegRaises(reg) THEN input
             ELSE [input EXCEPT ![variant].svd =
                      [@ EXCEPT ![Len(@)] = Append(@, reg)]]

RecordPortio(doc) ==
    input' = [input EXCEPT ![variant].portio = Append(@, doc)]

RecordVariant ==
    input' = IF variant < nVariants THEN Append(input, NoDocuments) ELSE input

NextTrace ==
    \/ \E gpio \in BOOLEAN : SvdOpen(gpio) /\ RecordSvd(gpio) /\ Forget
    \/ \E reg \in Registers : SvdReg(reg) /\ RecordReg(reg) /\ Forget
    \/ SvdClose /\ Forget /\ UNCHANGED input
    \/ SvdEnd /\ Forget /\ UNCHANGED input
    \/ \E doc \in Portios : PinTool(doc) /\ RecordPortio(doc) /\ Forget
    \/ PinToolEnd /\ RecordVariant /\ Forget
    \/ WriteHeader /\ Forget /\ UNCHANGED input

SpecTrace == Init /\ [][NextTrace]_vars

(***************************************************************************)
(* SpecPinTool: parse_pin_tool alone, on a register model that parse_svd   *)
(* has built and that stays fixed: PORTIO.portio documents are read in any *)
(* order, any number of times.  The registers include a signal of PRS0     *)
(* that pt_signal_rename_map renames, and the documents include selectors   *)
(* under names close to the ones parse_pin_tool queries.                   *)
(***************************************************************************)
PinToolRegisters ==
    Registers \cup { Reg("PRS0_ACMPOUTROUTE", 84, << >>) }

PinToolPortios ==
    Portios \cup
    { << Selector("PRS.DIGOUT", "PRS_DIGOUT", << Route("DIGOUT", << <<3, 3>> >>) >>),
         Selector("PRS.ACMPOUT", "PRS_ACMPOUT", << Route("ACMPOUT", << <<3, 4>> >>) >>),
         Selector("PRS0", "PRS0_DIGOUT", << Route("DIGOUT", << <<3, 5>> >>) >>),
         Selector("PRS.ACMPOUT", "PRS_DIGOUT",
                  << Route("ACMPOUT", << <<3, 6>> >>), Route("DIGOUT", << <<1, 1>> >>) >>),
         Selector("ACMP0", "ACMP0_ACMPOUT", << Route("ACMPOUT", << <<3, 7>> >>) >>),
         Selector("ACMP0", "ACMP0_DIGOUT", << Route("DIGOUT", << <<0, 7>> >>) >>) >>,
      << Selector("PRS.DIGOUT", "PRS_DIGOUT", << Route("DIGOUT", << <<3, 3>> >>) >>),
         Selector("PRS0", "PRS0_ACMPOUT", << Route("ACMPOUT", << <<3, 8>> >>) >>),
         Selector("FRC", "FRC_CCC0", << Route("CCC0", << <<3, 9>> >>) >>),
         Selector("PTI", "PTI_CCC0", << Route("CCC0", << <<3, 10>> >>) >>) >> }

RegisterModels ==
    { VisitRegisters(EmptyDict, <<r1, r2>>) :
        r1 \in { r \in PinToolRegisters : ~RegRaises(r) },
        r2 \in { r \in PinToolRegisters : ~RegRaises(r) } }

InitPinTool ==
    /\ peripherals \in RegisterModels
    /\ pc = "parse_pin_tool"
    /\ error = ""
    /\ nVariants = 1
    /\ variant = 1
    /\ inDoc = FALSE
    /\ svdSeen = TRUE
    /\ portioSeen = FALSE
    /\ nReads = 0
    /\ warns = << >>
    /\ lines = << >>
    /\ header = << >>
    /\ firstOffset = << >>
    /\ portios = {}
    /\ matched = {}
    /\ absent = FALSE
    /\ routeEnSeen = {}
    /\ firstRoute = {}
    /\ routesRead = {}
    /\ input = << NoDocuments >>
    /\ last = << >>

NextPinTool ==
    \E doc \in PinToolPortios : PinTool(doc) /\ Remember(doc) /\ UNCHANGED input

SpecPinTool == InitPinTool /\ [][NextPinTool]_vars

(***************************************************************************)
(* SpecSvd: parse_svd alone, on the *.svd documents of one variant, with   *)
(* registers that take the ROUTE path under names the rename tables hold,  *)
(* and two offsets for the same ROUTE register.  The register read is      *)
(* recorded in `last`.                                                     *)
(***************************************************************************)
SvdRegisters ==
    { Reg("TIMER0_ROUTEEN", 32, << Field("CC0PEN", 0), Field("CC1PEN", 1) >>),
      Reg("TIMER0_CC0ROUTE", 36, << >>),
      Reg("TIMER0_CC0ROUTE", 52, << >>),
      Reg("TIMER0_CC1ROUTE", 40, << >>),
      Reg("FRC_ROUTEEN", 64, << Field("CCC0PEN", 0), Field("DOUT", 1) >>),
      Reg("FRC_CCC0ROUTE", 68, << >>),
      Reg("SYXO0_BUFOUTREQINASYNCROUTE", 100, << >>),
      Reg("PORTA_CTRL", 0, << >>),
      Reg("TRACEROUTE", 96, << >>) }

InitSvd ==
    /\ peripherals = EmptyDict
    /\ pc = "parse_svd"
    /\ error = ""
    /\ nVariants = 1
    /\ variant = 1
    /\ inDoc = FALSE
    /\ svdSeen = FALSE
    /\ portioSeen = FALSE
    /\ nReads = 0
    /\ warns = << >>
    /\ lines = << >>
    /\ header = << >>
    /\ firstOffset = << >>
    /\ portios = {}
    /\ matched = {}
    /\ absent = FALSE
    /\ routeEnSeen = {}
    /\ firstRoute = {}
    /\ routesRead = {}
    /\ input = << NoDocuments >>
    /\ last = << >>

NextSvd ==
    \/ \E gpio \in BOOLEAN : SvdOpen(gpio) /\ Forget /\ UNCHANGED input
    \/ \E reg \in SvdRegisters : SvdReg(reg) /\ Remember(reg) /\ UNCHANGED input
    \/ SvdClose /\ Forget /\ UNCHANGED input

SpecSvd == InitSvd /\ [][NextSvd]_vars

\* parse_svd (lines 149-185) on the *.svd documents of one variant
RECURSIVE parse_svd(_, _)
parse_svd(m, docs) ==
    IF docs = << >> THEN m
    ELSE parse_svd(VisitRegisters(m, Head(docs)), Tail(docs))

\* parse_pin_tool (lines 188-224) on the PORTIO.portio documents of one variant
RECURSIVE parse_pin_tool(_, _)
parse_pin_tool(m, docs) ==
    IF docs = << >> THEN m
    ELSE parse_pin_tool(PinToolDoc(m, Head(docs)), Tail(docs))

\* Aggregate with the calls of lines 241 and 243 in each other's place:
\* parse_pin_tool runs before parse_svd
RECURSIVE AggregateSwapped(_, _)
AggregateSwapped(m, variants) ==
    IF variants = << >> THEN m
    ELSE AggregateSwapped(parse_svd(parse_pin_tool(m, Head(variants).portio),
                                    Head(variants).svd),
                          Tail(variants))

\* lines 238-243 on the documents of a sequence of variants
RECURSIVE Aggregate(_, _)
Aggregate(m, variants) ==
    IF variants = << >> THEN m
    ELSE Aggregate(parse_pin_tool(parse_svd(m, Head(variants).svd),
                                  Head(variants).portio),
                   Tail(variants))

(***************************************************************************)
(* SpecReprocess: a family that lists the same variant again and again.    *)
(* The variant's documents, one *.svd file and up to two PORTIO.portio     *)
(* files, are drawn at the start and kept in `input`; a step is one        *)
(* iteration of the loop of __main__ on them, or write_header after the    *)
(* last one.                                                               *)
(***************************************************************************)
\* sequences over S of length at most n
RECURSIVE SeqsUpTo(_, _)
SeqsUpTo(S, n) ==
    IF n = 0 THEN { << >> }
    ELSE LET shorter == SeqsUpTo(S, n - 1)
         IN  shorter \cup { Append(q, x) : q \in shorter, x \in S }

\* the documents of one variant: the open of the *.svd file, its registers
\* and the PORTIO.portio files are at most MaxReads reads
VariantDocuments ==
    { [svd |-> << regs >>, portio |-> docs] :
        regs \in SeqsUpTo({ r \in Registers : ~RegRaises(r) }, MaxReads - 3),
        docs \in SeqsUpTo(Portios, 2) }

InitReprocess ==
    /\ peripherals = EmptyDict
    /\ pc = "parse_svd"
    /\ error = ""
    /\ nVariants = MaxVariants
    /\ variant = 1
    /\ inDoc = FALSE
    /\ svdSeen = FALSE
    /\ portioSeen = FALSE
    /\ nReads = 0
    /\ warns = << >>
    /\ lines = << >>
    /\ header = << >>
    /\ firstOffset = << >>
    /\ portios = {}
    /\ matched = {}
    /\ absent = FALSE
    /\ routeEnSeen = {}
    /\ firstRoute = {}
    /\ routesRead = {}
    /\ input \in { << v >> : v \in VariantDocuments }
    /\ last = << >>

\* what one iteration of the loop has read and printed so far: the model as
\* parse_svd and parse_pin_tool see it, the history variables, the WARN lines
Reading ==
    [peripherals |-> peripherals, routeEnSeen |-> routeEnSeen,
     firstRoute |-> firstRoute, routesRead |-> routesRead,
     firstOffset |-> firstOffset, portios |-> portios, matched |-> matched,
     nReads |-> nReads, warns |-> << >>]

\* lines 154-185 on the registers of one *.svd file, as in SvdReg
RECURSIVE ReadRegisters(_, _)
ReadRegisters(h, regs) ==
    IF regs = << >> THEN h
    ELSE LET reg == Head(regs)
         IN  ReadRegisters(
               [h EXCEPT
                  !.peripherals = VisitRegister(h.peripherals, reg),
                  !.routeEnSeen = RouteEnSeenAfter(h.routeEnSeen, reg),
                  !.firstRoute = FirstRouteAfter(h.firstRoute, h.routeEnSeen,
                                                 h.peripherals, reg),
                  !.routesRead = RoutesReadAfter(h.routesRead, reg),
                  !.firstOffset = FirstOffsetAfter(h.firstOffset, reg),
                  !.nReads = h.nReads + 1],
               Tail(regs))

\* lines 150-185 on the *.svd files of one variant, as in SvdOpen and SvdReg
RECURSIVE ReadSvds(_, _)
ReadSvds(h, docs) ==
    IF docs = << >> THEN h
    ELSE ReadSvds(ReadRegisters([h EXCEPT !.nReads = h.nReads + 1], Head(docs)),
                  Tail(docs))

\* lines 189-224 on the PORTIO.portio files of one variant, as in PinTool
RECURSIVE ReadPortios(_, _)
ReadPortios(h, docs) ==
    IF docs = << >> THEN h
    ELSE LET doc == Head(docs)
         IN  ReadPortios(
               [h EXCEPT
                  !.peripherals = PinToolDoc(h.peripherals, doc),
                  !.warns = h.warns \o PinToolWarnings(h.peripherals, doc),
                  !.portios = h.portios \cup {doc},
                  !.matched = h.matched \cup Matches(h.peripherals, doc),
                  !.nReads = h.nReads + 1],
               Tail(docs))

\* lines 238-243, then line 238 or 245: one iteration of the loop, parse_svd
\* then parse_pin_tool on the documents of the variant, and the next variant
\* or write_header.  `warns` is every WARN line the iteration printed.
ProcessVariant ==
    /\ pc = "parse_svd" /\ ~inDoc
    /\ \E v \in {input[1]} :
       \E h \in {ReadPortios(ReadSvds(Reading, v.svd), v.portio)} :
           /\ peripherals' = Aggregate(peripherals, input)
           /\ routeEnSeen' = h.routeEnSeen
           /\ firstRoute' = h.firstRoute
           /\ routesRead' = h.routesRead
           /\ firstOffset' = h.firstOffset
           /\ portios' = h.portios
           /\ matched' = h.matched
           /\ nReads' = h.nReads
           /\ warns' = h.warns
           /\ absent' = (absent \/ v.svd = << >> \/ v.portio = << >>)
           /\ IF variant < nVariants
              THEN /\ variant' = variant + 1
                   /\ pc' = "parse_svd"
                   /\ svdSeen' = FALSE
                   /\ portioSeen' = FALSE
              ELSE /\ pc' = "write_header"
                   /\ svdSeen' = (v.svd # << >>)
                   /\ portioSeen' = (v.portio # << >>)
                   /\ UNCHANGED variant
    /\ UNCHANGED << error, nVariants, inDoc, lines, header, input >>

NextReprocess ==
    \/ ProcessVariant /\ Forget
    \/ WriteHeader /\ Forget /\ UNCHANGED input

SpecReprocess == InitReprocess /\ [][NextReprocess]_vars

(***************************************************************************)
(* Views of the aggregated model.                                          *)
(***************************************************************************)
PeripheralNames(m) == KeySet(m)

SignalNames(m, p) == KeySet(Get(m, p)) \ {"_base"}

Base(m, p) == Get(Get(m, p), "_base")

Data(m, p, s) == Get(Get(m, p), s)

\* the <<port, pin>> locations of a signal's pinout, {} when it has none
PinSet(m, p, s) ==
    LET pinout == GetOr(Data(m, p, s), "pinout", EmptyDict)
    IN  UNION { { <<pinout[k][1], pin>> : pin \in pinout[k][2] } : k \in 1..Len(pinout) }

\* the locations `doc` lists for a signal: those parse_pin_tool reads (lines 214-215)
LocSet(doc, p, s) ==
    LET nodes == Selectors(doc, p, s)
    IN  IF nodes = << >> THEN {}
        ELSE LET locs == Locations(Head(nodes), s)
             IN  { locs[i] : i \in 1..Len(locs) }

\* what the register documents contributed: peripherals, _base, signals, en, route
RegFacts(m) ==
    { <<p, "_base", Base(m, p)>> : p \in PeripheralNames(m) } \cup
    UNION { { <<p, s, a, GetOr(Data(m, p, s), a, -1)>> : a \in {"en", "route"} } :
            <<p, s>> \in { SignalList(m)[i] : i \in 1..Len(SignalList(m)) } }

\* what the routing documents contributed: the pinout sets
PinFacts(m) ==
    UNION { { <<p, s, "pinout", loc[1], loc[2]>> : loc \in PinSet(m, p, s) } :
            <<p, s>> \in { SignalList(m)[i] : i \in 1..Len(SignalList(m)) } }

Facts(m) == RegFacts(m) \cup PinFacts(m)

(***************************************************************************)
(* Properties.                                                             *)
(***************************************************************************)

\* C1 (base invariance): in every state the _base of every Peripheral is the
\* word offset of the first _ROUTEEN or ROUTE register read for it, and no
\* step of the run changes the _base of a Peripheral of the model.
C1_BaseInvariance ==
    /\ [](\A p \in PeripheralNames(peripherals) :
            /\ p \in DOMAIN firstOffset
            /\ Base(peripherals, p) = firstOffset[p])
    /\ [][\A p \in PeripheralNames(peripherals) :
            /\ p \in PeripheralNames(peripherals')
            /\ Base(peripherals', p) = Base(peripherals, p)]_vars

\* TIMER0 was created by TIMER0_CC0ROUTE (word 9) and TIMER0_ROUTEEN (word 8
\* or 12) was read later: CC0 has its enable bit and _base is still 9
C1_Witness ==
    /\ Has(peripherals, "TIMER0")
    /\ Base(peripherals, "TIMER0") = 9
    /\ Has(Get(peripherals, "TIMER0"), "CC0")
    /\ Has(Data(peripherals, "TIMER0", "CC0"), "en")

\* C5 (first-writer-wins): once a Signal has `en` or `route`, every step keeps
\* the Signal and leaves that value as it is.
C5_FirstWriterWins ==
    [][\A p \in PeripheralNames(peripherals) :
         \A s \in SignalNames(peripherals, p) :
           \A a \in {"en", "route"} :
             Has(Data(peripherals, p, s), a) =>
               /\ p \in PeripheralNames(peripherals')
               /\ s \in SignalNames(peripherals', p)
               /\ Has(Data(peripherals', p, s), a)
               /\ Get(Data(peripherals', p, s), a) = Get(Data(peripherals, p, s), a)]_vars

\* TIMER0_ROUTEEN at 48 (CC0PEN bit 2) was read first and TIMER0_ROUTEEN at 32
\* (CC0PEN bit 0, CC1PEN bit 1) later: CC1 exists and CC0 keeps bit 2; and
\* TIMER0_CC0ROUTE at word 13 was read first and the one at word 9 later: the
\* route of CC0 is still 13 - 12
C5_Witness ==
    /\ Has(peripherals, "TIMER0")
    /\ Base(peripherals, "TIMER0") = 12
    /\ Has(Get(peripherals, "TIMER0"), "CC1")
    /\ Has(Get(peripherals, "TIMER0"), "CC0")
    /\ GetOr(Data(peripherals, "TIMER0", "CC0"), "en", -1) = 2
    /\ { <<"TIMER0", "CC0", 13>>, <<"TIMER0", "CC0", 9>> } \subseteq routesRead
    /\ \E e \in firstRoute :
         e.peripheral = "TIMER0" /\ e.signal = "CC0" /\ e.offset = 13
    /\ GetOr(Data(peripherals, "TIMER0", "CC0"), "route", -1) = 1

\* the indices of the parameterized macros of signal s of peripheral p in `ls`
DbusAt(ls, p, s) ==
    { i \in 1..Len(ls) :
        /\ ls[i].kind = "dbus"
        /\ ls[i].name = "SILABS_DBUS_" \o p \o "_" \o s }

\* the indices of the per-location macros of signal s of peripheral p in `ls`
PinAt(ls, p, s) ==
    { i \in 1..Len(ls) :
        /\ ls[i].kind = "pin"
        /\ ls[i].macro = "SILABS_DBUS_" \o p \o "_" \o s }

\* C8 (route-offset correctness): once write_header has run, `lines` holds for
\* every Signal with a route exactly one parameterized macro, whose base is the
\* Peripheral's _base, whose route is the Signal's route, whose enable flag is
\* 1 exactly when the Signal has `en`, and whose enable bit is `en` (0 without);
\* and the header written is that list.
C8_RouteOffsetCorrect ==
    (pc = "done" \/ error = "KeyError") =>
        /\ pc = "done" => header = lines
        /\ \A p \in PeripheralNames(peripherals) :
             \A s \in SignalNames(peripherals, p) :
               Has(Data(peripherals, p, s), "route") =>
                 /\ Cardinality(DbusAt(lines, p, s)) = 1
                 /\ \A i \in DbusAt(lines, p, s) :
                      /\ lines[i].base = Base(peripherals, p)
                      /\ lines[i].route = Get(Data(peripherals, p, s), "route")
                      /\ lines[i].flag = 1 <=> Has(Data(peripherals, p, s), "en")
                      /\ lines[i].flag \in {0, 1}
                      /\ lines[i].en = GetOr(Data(peripherals, p, s), "en", 0)

\* the end-to-end scenario: TIMER0_ROUTEEN at 0x20 with CC0PEN bit 0,
\* TIMER0_CC0ROUTE at 0x24 and location (0, 5) give SILABS_DBUS_TIMER0_CC0 with
\* base 8, flag 1, bit 0, route 1 and TIMER0_CC0_PA5 invoking it with (0, 5)
C8_Witness ==
    /\ pc = "done"
    /\ \E i \in 1..Len(header) :
         header[i] = [kind |-> "dbus", name |-> "SILABS_DBUS_TIMER0_CC0",
                      base |-> 8, flag |-> 1, en |-> 0, route |-> 1]
    /\ \E i \in 1..Len(header) :
         header[i] = [kind |-> "pin", name |-> "TIMER0_CC0_PA5",
                      macro |-> "SILABS_DBUS_TIMER0_CC0", port |-> 0, pin |-> 5]

\* C7 (order-independence of enrichment): on a fixed register model, whatever
\* the order in which the routing documents were read, the pinout of every
\* Signal is the union of the locations those documents list for it.
C7_EnrichmentOrderIndependent ==
    \A p \in PeripheralNames(peripherals) :
      \A s \in SignalNames(peripherals, p) :
        PinSet(peripherals, p, s) = UNION { LocSet(doc, p, s) : doc \in portios }

\* two routing documents that both list TIMER0_CC0 were read
C7_Witness ==
    /\ Cardinality({ doc \in portios : LocSet(doc, "TIMER0", "CC0") # {} }) >= 2
    /\ Has(peripherals, "TIMER0")
    /\ Has(Get(peripherals, "TIMER0"), "CC0")
    /\ PinSet(peripherals, "TIMER0", "CC0") = { <<0, 5>>, <<0, 6>>, <<1, 2>> }

\* a sequence read in the order f gives
Permute(seq, f) == [i \in 1..Len(seq) |-> seq[f[i]]]

\* a register document names each of its registers once
DistinctNames(doc) ==
    \A i, j \in 1..Len(doc) : doc[i].name = doc[j].name => i = j

\* C3 (commutative merge): the model parse_svd has built from the registers of
\* the current register document is the one it builds from every permutation
\* of those registers: same Peripherals, _base, Signals, en and route.
C3_RegisterOrderIrrelevant ==
    (/\ pc = "parse_svd" /\ inDoc
     /\ DistinctNames(input[variant].svd[Len(input[variant].svd)])) =>
        LET docs   == input[variant].svd
            doc    == docs[Len(docs)]
            before == [input EXCEPT ![variant].svd = SubSeq(docs, 1, Len(docs) - 1)]
            m0     == Aggregate(EmptyDict, before)
        IN  \A f \in Permutations(1..Len(doc)) :
              RegFacts(VisitRegisters(m0, Permute(doc, f))) = RegFacts(peripherals)

\* the model one variant's documents give on their own
VariantModel(v) == Aggregate(EmptyDict, << v >>)

\* the variants agree on _base, en and route wherever two of them define the
\* same Peripheral or Signal
Agree(variants) ==
    \A i, j \in 1..Len(variants) :
      LET a == VariantModel(variants[i])
          b == VariantModel(variants[j])
      IN  \A p \in PeripheralNames(a) \cap PeripheralNames(b) :
            /\ Base(a, p) = Base(b, p)
            /\ \A s \in SignalNames(a, p) \cap SignalNames(b, p) :
                 \A x \in {"en", "route"} :
                   /\ Has(Data(a, p, s), x) <=> Has(Data(b, p, s), x)
                   /\ Has(Data(a, p, s), x) =>
                        Get(Data(a, p, s), x) = Get(Data(b, p, s), x)

\* every variant had a register document and a routing document
Complete(variants) ==
    \A i \in 1..Len(variants) :
      variants[i].svd # << >> /\ variants[i].portio # << >>

\* C6 (variant order): when the variants agree (and each has its two
\* documents), the final model is the one every permutation of the variants
\* gives: same Peripherals, Signals, _base, en, route and pinout sets.
C6_VariantOrderIrrelevant ==
    (pc = "write_header" /\ Agree(input) /\ Complete(input)) =>
        \A f \in Permutations(1..Len(input)) :
          Facts(Aggregate(EmptyDict, Permute(input, f))) = Facts(peripherals)

\* C2 (union across variants): when every variant has been processed (each
\* with a register document and a routing document), the pinout of every
\* Signal is the union of the locations listed for it in the routing documents
\* of all the variants processed.
C2_PinoutIsUnionOverVariants ==
    (pc = "write_header" /\ ~absent) =>
        \A p \in PeripheralNames(peripherals) :
          \A s \in SignalNames(peripherals, p) :
            PinSet(peripherals, p, s) = UNION { LocSet(doc, p, s) : doc \in portios }

\* C4 (skip-on-incomplete): a Signal with `en` and without `route` gets no
\* parameterized macro and no per-location macro in the header, and
\* write_header prints exactly one warning for it.
C4_SkipOnIncomplete ==
    pc = "done" =>
        \A p \in PeripheralNames(peripherals) :
          \A s \in SignalNames(peripherals, p) :
            (/\ Has(Data(peripherals, p, s), "en")
             /\ ~Has(Data(peripherals, p, s), "route")) =>
               /\ DbusAt(header, p, s) = {}
               /\ PinAt(header, p, s) = {}
               /\ Cardinality({ i \in 1..Len(warns) : warns[i] = <<p, s>> }) = 1

\* C9 (hard failure): when a variant had no register document or no routing
\* document, or a register document had no GPIO_NS peripheral, the run does
\* not complete and no header is written.
C9_AbsentDocumentAborts ==
    (absent \/ error = "StopIteration") => (pc # "done" /\ header = << >>)

\* C10 (empty pinout): when every variant has been processed, a Signal that no
\* routing document matched has a pinout, which is empty; write_header does
\* not fail, and writes no per-location macro for that Signal.
C10_UnmatchedSignalHasEmptyPinout ==
    /\ error # "KeyError"
    /\ pc \in {"write_header", "done"} =>
         \A p \in PeripheralNames(peripherals) :
           \A s \in SignalNames(peripherals, p) :
             <<p, s>> \notin matched =>
               /\ Has(Data(peripherals, p, s), "pinout")
               /\ Get(Data(peripherals, p, s), "pinout") = EmptyDict
               /\ pc = "done" => PinAt(header, p, s) = {}

\* how many times x occurs in seq
Count(seq, x) == Cardinality({ i \in 1..Len(seq) : seq[i] = x })

\* C11 (missing routing match): a step of parse_pin_tool that reads a routing
\* document prints exactly one warning for every Signal of the model the
\* document has no module/selector for and leaves the pinout of that Signal as
\* it was; it prints no warning for a Signal the document has a selector for,
\* whose pinout gains the locations listed; and the run goes on.
C11_UnmatchedWarnsOnce ==
    [][(pc = "parse_pin_tool" /\ last' # << >>) =>
         LET doc == last'[1]
         IN  /\ pc' = "parse_pin_tool"
             /\ error' = ""
             /\ Len(warns') <= Len(SignalList(peripherals))
             /\ \A p \in PeripheralNames(peripherals) :
                  \A s \in SignalNames(peripherals, p) :
                    IF \E i \in 1..Len(doc) :
                         /\ doc[i].module = PtPeripheral(p, s)
                         /\ doc[i].selector = PtSignalPrefix(p) \o "_" \o PtSignal(s)
                    THEN /\ Count(warns', <<p, s>>) = 0
                         /\ PinSet(peripherals', p, s) =
                              PinSet(peripherals, p, s) \cup LocSet(doc, p, s)
                    ELSE /\ Count(warns', <<p, s>>) = 1
                         /\ PinSet(peripherals', p, s) = PinSet(peripherals, p, s)]_vars

\* the model holds PTI.CDTI0 and then TIMER0.CC0, and the document just read
\* lists only TIMER0_CC0 at (0, 5): one warning, for PTI_CDTI0, and the later
\* signal TIMER0.CC0 has its location
C11_Witness ==
    /\ pc = "parse_pin_tool"
    /\ last = << << Selector("TIMER0", "TIMER0_CC0", << Route("CC0", << <<0, 5>> >>) >>) >> >>
    /\ warns = << <<"PTI", "CDTI0">> >>
    /\ SignalList(peripherals) = << <<"PTI", "CDTI0">>, <<"TIMER0", "CC0">> >>
    /\ PinSet(peripherals, "PTI", "CDTI0") = {}
    /\ PinSet(peripherals, "TIMER0", "CC0") = { <<0, 5>> }

\* the Signals of Peripheral p, {} when the model has no such Peripheral
SignalsOf(m, p) == IF Has(m, p) THEN SignalNames(m, p) ELSE {}

\* the canonical Peripheral and Signals each routing register of SvdRegisters
\* stands for: FRC is PTI, SYXO0 is HFXO0, CCC0 is CDTI0, the other names are
\* kept; the field DOUT of FRC_ROUTEEN is no enable field
Canonical ==
    ("TIMER0_ROUTEEN" :> << "TIMER0", {"CC0", "CC1"} >>) @@
    ("TIMER0_CC0ROUTE" :> << "TIMER0", {"CC0"} >>) @@
    ("TIMER0_CC1ROUTE" :> << "TIMER0", {"CC1"} >>) @@
    ("FRC_ROUTEEN" :> << "PTI", {"CDTI0"} >>) @@
    ("FRC_CCC0ROUTE" :> << "PTI", {"CDTI0"} >>) @@
    ("SYXO0_BUFOUTREQINASYNCROUTE" :> << "HFXO0", {"BUFOUTREQINASYNC"} >>)

\* C12 (renames at ingestion): no Peripheral of the model bears a name of the
\* domain of peripheral_rename_map and no Signal a name of the domain of
\* signal_rename_map; and a step of parse_svd that reads a routing register,
\* on the _ROUTEEN or on the ROUTE path, adds exactly the canonical Peripheral
\* and Signals of that register (PTI and CDTI0 for FRC_ROUTEEN with CCC0PEN),
\* names absent from the tables being stored unchanged.
C12_RenamesAtIngestion ==
    /\ [](\A p \in PeripheralNames(peripherals) :
            /\ p \notin DOMAIN peripheral_rename_map
            /\ \A s \in SignalNames(peripherals, p) : s \notin DOMAIN signal_rename_map)
    /\ [][(last' # << >> /\ pc' = "parse_svd") =>
            LET reg == last'[1]
            IN  IF reg.name \in DOMAIN Canonical
                THEN LET p    == Canonical[reg.name][1]
                         sigs == Canonical[reg.name][2]
                     IN  /\ PeripheralNames(peripherals') =
                              PeripheralNames(peripherals) \cup {p}
                         /\ SignalNames(peripherals', p) =
                              SignalsOf(peripherals, p) \cup sigs
                         /\ \A q \in PeripheralNames(peripherals) \ {p} :
                              SignalNames(peripherals', q) = SignalNames(peripherals, q)
                ELSE peripherals' = peripherals]_vars

\* FRC_ROUTEEN (field CCC0PEN) and FRC_CCC0ROUTE were read: the one Peripheral
\* PTI has the one Signal CDTI0, with the enable bit of the first register and
\* the route of the second
C12_Witness ==
    /\ last = << Reg("FRC_CCC0ROUTE", 68, << >>) >>
    /\ PeripheralNames(peripherals) = {"PTI"}
    /\ SignalNames(peripherals, "PTI") = {"CDTI0"}
    /\ Has(Data(peripherals, "PTI", "CDTI0"), "en")
    /\ Has(Data(peripherals, "PTI", "CDTI0"), "route")

\* C13 (monotonic growth): the model is empty when the run starts, and every
\* step keeps every Peripheral, every Signal, every `en` and `route` with its
\* value, and every (port, pin) of every pinout.
C13_MonotonicGrowth ==
    /\ peripherals = EmptyDict
    /\ [][\A p \in PeripheralNames(peripherals) :
            /\ p \in PeripheralNames(peripherals')
            /\ \A s \in SignalNames(peripherals, p) :
                 /\ s \in SignalNames(peripherals', p)
                 /\ \A a \in {"en", "route"} :
                      Has(Data(peripherals, p, s), a) =>
                        /\ Has(Data(peripherals', p, s), a)
                        /\ Get(Data(peripherals', p, s), a) =
                             Get(Data(peripherals, p, s), a)
                 /\ PinSet(peripherals, p, s) \subseteq PinSet(peripherals', p, s)]_vars

\* the second variant is being processed and TIMER0.CC0, which has its enable
\* bit, holds the locations of two routing documents: (0, 5) from one, (0, 6)
\* on the same port and (1, 2) from the other
C13_Witness ==
    /\ variant = 2
    /\ Has(peripherals, "TIMER0")
    /\ SignalNames(peripherals, "TIMER0") = {"CC0", "CC1"}
    /\ Has(Data(peripherals, "TIMER0", "CC0"), "en")
    /\ PinSet(peripherals, "TIMER0", "CC0") = { <<0, 5>>, <<0, 6>>, <<1, 2>> }

\* the keys of a dict in insertion order
Keys(d) == [i \in 1..Len(d) |-> d[i][1]]

\* C14 (frame of parse_pin_tool): a step of parse_pin_tool leaves the
\* Peripherals and the Signals of every Peripheral as they are, creating none
\* (so a selector of the document for a signal the model lacks adds nothing),
\* and leaves _base and the presence and value of `en` and `route` unchanged:
\* the only key it may add to a Signal is "pinout".
C14_PinToolFrame ==
    [][pc = "parse_pin_tool" =>
         /\ Keys(peripherals') = Keys(peripherals)
         /\ \A p \in PeripheralNames(peripherals) :
              /\ Keys(Get(peripherals', p)) = Keys(Get(peripherals, p))
              /\ Base(peripherals', p) = Base(peripherals, p)
              /\ \A s \in SignalNames(peripherals, p) :
                   /\ KeySet(Data(peripherals', p, s)) \subseteq
                        KeySet(Data(peripherals, p, s)) \cup {"pinout"}
                   /\ \A a \in {"en", "route"} :
                        /\ Has(Data(peripherals', p, s), a) = Has(Data(peripherals, p, s), a)
                        /\ GetOr(Data(peripherals', p, s), a, -1) =
                             GetOr(Data(peripherals, p, s), a, -1)]_vars

\* the document just read has selectors for PRS_ASYNCH0, PTI_CDTI0 and
\* ACMP0_DIGOUT and none for TIMER0; the model holds TIMER0 alone, with CC0
\* (enable bit, route) visited by parse_pin_tool and given no location
C14_Witness ==
    /\ last # << >>
    /\ Len(last[1]) = 3
    /\ last[1][2].selector = "PTI_CDTI0"
    /\ PeripheralNames(peripherals) = {"TIMER0"}
    /\ Has(Data(peripherals, "TIMER0", "CC0"), "en")
    /\ Has(Data(peripherals, "TIMER0", "CC0"), "route")
    /\ Has(Data(peripherals, "TIMER0", "CC0"), "pinout")
    /\ PinSet(peripherals, "TIMER0", "CC0") = {}

\* C15 (emission order): in the header written, the per-location macros of
\* every Signal are one per (port, pin) of its pinout, and they come with the
\* ports in ascending order and, within a port, the pins in ascending order.
C15_AscendingPortPinOrder ==
    pc = "done" =>
        \A p \in PeripheralNames(peripherals) :
          \A s \in SignalNames(peripherals, p) :
            /\ Cardinality(PinAt(header, p, s)) = Cardinality(PinSet(peripherals, p, s))
            /\ { <<header[i].port, header[i].pin>> : i \in PinAt(header, p, s) } =
                 PinSet(peripherals, p, s)
            /\ \A i, j \in PinAt(header, p, s) :
                 i < j =>
                   \/ header[i].port < header[j].port
                   \/ /\ header[i].port = header[j].port
                      /\ header[i].pin < header[j].pin

\* the Signals with `route`, as <<peripheral, signal>> pairs
Routed(m) ==
    { ps \in { SignalList(m)[i] : i \in 1..Len(SignalList(m)) } :
        Has(Data(m, ps[1], ps[2]), "route") }

\* C16 as stated: every Signal with `route` has a first ROUTE register, and
\* _base + route is the word offset of that register; and when no _ROUTEEN
\* register had been read for the Peripheral before that ROUTE register,
\* _base is the word offset of that register and route is 0.
C16_RouteRelativeToBase ==
    /\ Routed(peripherals) = { <<e.peripheral, e.signal>> : e \in firstRoute }
    /\ \A e \in firstRoute :
         /\ Base(peripherals, e.peripheral) +
              Get(Data(peripherals, e.peripheral, e.signal), "route") = e.offset
         /\ ~e.routeEn =>
              /\ Base(peripherals, e.peripheral) = e.offset
              /\ Get(Data(peripherals, e.peripheral, e.signal), "route") = 0

\* C16 (amended): every Signal with `route` has a first ROUTE register, and
\* _base + route is the word offset of that register; and when the Peripheral
\* was not in the model before that ROUTE register (no _ROUTEEN register and
\* no other ROUTE register had been read for it), _base is the word offset of
\* that register and route is 0.
C16_RouteRelativeToBaseOfNew ==
    /\ Routed(peripherals) = { <<e.peripheral, e.signal>> : e \in firstRoute }
    /\ \A e \in firstRoute :
         /\ Base(peripherals, e.peripheral) +
              Get(Data(peripherals, e.peripheral, e.signal), "route") = e.offset
         /\ ~e.known =>
              /\ Base(peripherals, e.peripheral) = e.offset
              /\ Get(Data(peripherals, e.peripheral, e.signal), "route") = 0

\* TIMER0_ROUTEEN (word 8) was read, then TIMER0_CC0ROUTE at word 13 and
\* later the one at word 9: route stays 13 - 8; PTI was created by
\* FRC_CCC0ROUTE (word 17): _base 17, route 0; and HFXO0 likewise
C16_Witness ==
    /\ [peripheral |-> "TIMER0", signal |-> "CC0", offset |-> 13,
         routeEn |-> TRUE, known |-> TRUE] \in firstRoute
    /\ last = << Reg("TIMER0_CC0ROUTE", 36, << >>) >>
    /\ Base(peripherals, "TIMER0") = 8
    /\ Get(Data(peripherals, "TIMER0", "CC0"), "route") = 5
    /\ [peripheral |-> "PTI", signal |-> "CDTI0", offset |-> 17,
         routeEn |-> FALSE, known |-> FALSE] \in firstRoute
    /\ Base(peripherals, "PTI") = 17
    /\ Get(Data(peripherals, "PTI", "CDTI0"), "route") = 0

\* C17 (processing order): the run starts with parse_svd of the first
\* variant; parse_svd of a variant is followed by parse_pin_tool of the same
\* variant, which is followed by parse_svd of the next variant or, after the
\* last variant only, by write_header; no phase is entered twice for a
\* variant; and the header is written once, by write_header, which ends the
\* run.
C17_ProcessingOrder ==
    /\ (pc = "parse_svd" /\ variant = 1)
    /\ [](variant \in 1..nVariants)
    /\ [][/\ nVariants' = nVariants
          /\ pc = "parse_svd" =>
               /\ pc' \in {"parse_svd", "parse_pin_tool", "failed"}
               /\ variant' = variant
          /\ pc = "parse_pin_tool" =>
               \/ pc' = "parse_pin_tool" /\ variant' = variant
               \/ pc' = "parse_svd" /\ variant < nVariants /\ variant' = variant + 1
               \/ pc' = "write_header" /\ variant = nVariants /\ variant' = variant
          /\ pc = "write_header" =>
               /\ pc' \in {"done", "failed"}
               /\ variant' = variant
          /\ pc \notin {"done", "failed"}
          /\ header' # header => (pc = "write_header" /\ pc' = "done")]_vars

\* a family of two variants, each with a register document and a routing
\* document, has been processed and its header written
C17_Witness ==
    /\ pc = "done"
    /\ nVariants = 2
    /\ variant = 2
    /\ ~absent
    /\ header # << >>

\* the locations of the routes named `route` under a selector node
RouteLocs(node, route) ==
    UNION { { node.routes[k].locations[n] : n \in 1..Len(node.routes[k].locations) } :
            k \in { k \in 1..Len(node.routes) : node.routes[k].name = route } }

\* C18 (lookup names): a step of parse_pin_tool that reads a routing document
\* looks every Signal s of every Peripheral p up under module p and selector
\* p_r, r being the image of s in pt_signal_rename_map (s itself when it has
\* none), and for p = PRS0 under module PRS.s and selector PRS_r: the pinout
\* gains the locations of the first such selector of the document (those of
\* its routes named r) and no warning is printed, or, the document having no
\* such selector, the pinout is unchanged and one warning is printed.  The
\* keys of the model stay as they are: r is not stored.
C18_LookupNames ==
    [][last' # << >> =>
         LET doc == last'[1]
         IN  /\ Keys(peripherals') = Keys(peripherals)
             /\ \A p \in PeripheralNames(peripherals) :
                  /\ Keys(Get(peripherals', p)) = Keys(Get(peripherals, p))
                  /\ \A s \in SignalNames(peripherals, p) :
                       LET r        == IF s \in DOMAIN pt_signal_rename_map
                                       THEN pt_signal_rename_map[s] ELSE s
                           module   == IF p = "PRS0" THEN "PRS." \o s ELSE p
                           selector == IF p = "PRS0" THEN "PRS_" \o r ELSE p \o "_" \o r
                           hits     == { i \in 1..Len(doc) :
                                           /\ doc[i].module = module
                                           /\ doc[i].selector = selector }
                       IN  IF hits = {}
                           THEN /\ PinSet(peripherals', p, s) = PinSet(peripherals, p, s)
                                /\ Count(warns', <<p, s>>) = 1
                           ELSE LET first == CHOOSE i \in hits : \A j \in hits : i <= j
                                IN  /\ PinSet(peripherals', p, s) =
                                         PinSet(peripherals, p, s) \cup RouteLocs(doc[first], r)
                                    /\ Count(warns', <<p, s>>) = 0]_vars

\* the model holds PRS0.ACMPOUT and ACMP0.ACMPOUT; the document just read has
\* selectors under PRS.DIGOUT/PRS_DIGOUT, PRS.ACMPOUT/PRS_ACMPOUT,
\* PRS0/PRS0_DIGOUT and ACMP0/ACMP0_ACMPOUT, and the locations taken are those
\* of route DIGOUT under PRS.ACMPOUT/PRS_DIGOUT and under ACMP0/ACMP0_DIGOUT
C18_Witness ==
    /\ last # << >>
    /\ Len(last[1]) = 6
    /\ PeripheralNames(peripherals) = {"PRS0", "ACMP0"}
    /\ SignalNames(peripherals, "PRS0") = {"ACMPOUT"}
    /\ SignalNames(peripherals, "ACMP0") = {"ACMPOUT"}
    /\ PinSet(peripherals, "PRS0", "ACMPOUT") = { <<1, 1>> }
    /\ PinSet(peripherals, "ACMP0", "ACMPOUT") = { <<0, 7>> }
    /\ warns = << >>

\* C19 (re-processing): once the documents of a variant have been processed,
\* processing the same documents again, parse_svd then parse_pin_tool, leaves
\* the model as it is: Peripherals, _base, Signals, en, route and pinouts.
C19_ReprocessingChangesNothing ==
    [][variant > 1 => peripherals' = peripherals]_vars

\* the documents TIMER0_CC0ROUTE, TIMER0_ROUTEEN and two routing documents
\* that list TIMER0_CC0 have been processed once per variant, at least twice,
\* and the loop has ended
C19_Witness ==
    /\ pc = "write_header"
    /\ variant > 1
    /\ nReads = variant * (1 + Len(input[1].svd[1]) + Len(input[1].portio))
    /\ Len(input[1].svd[1]) >= 2
    /\ Len(input[1].portio) = 2
    /\ Has(peripherals, "TIMER0")
    /\ Base(peripherals, "TIMER0") = 9
    /\ Has(Get(peripherals, "TIMER0"), "CC0")
    /\ Has(Data(peripherals, "TIMER0", "CC0"), "en")
    /\ Has(Data(peripherals, "TIMER0", "CC0"), "route")
    /\ PinSet(peripherals, "TIMER0", "CC0") = { <<0, 5>>, <<0, 6>>, <<1, 2>> }

====
